---- MODULE Spec2Model ----
(***************************************************************************)
(* A model of scamper_addr.c: the reference-counted address value, its     *)
(* per-kind operation table (comparators, prefix arithmetic) and the       *)
(* interning address cache.                                                *)
(*                                                                         *)
(* A uint32_t is a tuple of four bytes, most significant first, so that    *)
(* the full 32-bit width is kept.  Memory is a tuple of bytes in address   *)
(* order.  The host byte order (littleEndian) and the return convention of *)
(* memcmp (libc) are properties of the build and are chosen in Init.       *)
(***************************************************************************)
EXTENDS Integers, Sequences, FiniteSets, TLC

VARIABLES
  littleEndian, \* host byte order of the build
  libc,         \* "diff": memcmp returns the byte difference; "sign": -1/0/1
  slot,         \* the heap of scamper_addr_t objects, by identity
  cache,        \* the heap of scamper_addrcache_t objects, by identity
  held,         \* ghost: references handed out for an address, not yet released
  fault,        \* ghost: "none", or the undefined behaviour that was reached
  last,         \* ghost: what scamper_addrcache_get returned, if it was the last call
  pc,           \* which function was applied to the inputs below
  sa, sb, sc,   \* inputs of the pure functions: addresses
  len,          \* input of the pure functions: a prefix length
  ret           \* result of the pure function that was applied

vars == <<littleEndian, libc, slot, cache, held, fault, last,
          pc, sa, sb, sc, len, ret>>

buildVars == <<littleEndian, libc>>
cacheVars == <<slot, cache, held, fault, last>>
pureVars  == <<pc, sa, sb, sc, len, ret>>

----------------------------------------------------------------------------
(* Bounds of the model *)

MaxAddrs  == 2   \* scamper_addr_t objects that may be allocated in a run
MaxRef    == 2   \* cap on an address's reference count
NumCaches == 2   \* scamper_addrcache_t objects that may be allocated in a run

----------------------------------------------------------------------------
(* Address kinds and the handlers table *)

SCAMPER_ADDR_TYPE_IPV4     == 1
SCAMPER_ADDR_TYPE_IPV6     == 2
SCAMPER_ADDR_TYPE_ETHERNET == 3
SCAMPER_ADDR_TYPE_FIREWIRE == 4

Types == 1..4

NULL == 0

handlers_size(type) ==
  CASE type = SCAMPER_ADDR_TYPE_IPV4     -> 4
    [] type = SCAMPER_ADDR_TYPE_IPV6     -> 16
    [] type = SCAMPER_ADDR_TYPE_ETHERNET -> 6
    [] type = SCAMPER_ADDR_TYPE_FIREWIRE -> 8

uint32_netmask == <<
  <<128,0,0,0>>, <<192,0,0,0>>, <<224,0,0,0>>, <<240,0,0,0>>,
  <<248,0,0,0>>, <<252,0,0,0>>, <<254,0,0,0>>, <<255,0,0,0>>,
  <<255,128,0,0>>, <<255,192,0,0>>, <<255,224,0,0>>, <<255,240,0,0>>,
  <<255,248,0,0>>, <<255,252,0,0>>, <<255,254,0,0>>, <<255,255,0,0>>,
  <<255,255,128,0>>, <<255,255,192,0>>, <<255,255,224,0>>, <<255,255,240,0>>,
  <<255,255,248,0>>, <<255,255,252,0>>, <<255,255,254,0>>, <<255,255,255,0>>,
  <<255,255,255,128>>, <<255,255,255,192>>, <<255,255,255,224>>, <<255,255,255,240>>,
  <<255,255,255,248>>, <<255,255,255,252>>, <<255,255,255,254>>, <<255,255,255,255>>
>>

uint32_hostmask == <<
  <<255,255,255,255>>, <<127,255,255,255>>, <<63,255,255,255>>, <<31,255,255,255>>,
  <<15,255,255,255>>, <<7,255,255,255>>, <<3,255,255,255>>, <<1,255,255,255>>,
  <<0,255,255,255>>, <<0,127,255,255>>, <<0,63,255,255>>, <<0,31,255,255>>,
  <<0,15,255,255>>, <<0,7,255,255>>, <<0,3,255,255>>, <<0,1,255,255>>,
  <<0,0,255,255>>, <<0,0,127,255>>, <<0,0,63,255>>, <<0,0,31,255>>,
  <<0,0,15,255>>, <<0,0,7,255>>, <<0,0,3,255>>, <<0,0,1,255>>,
  <<0,0,0,255>>, <<0,0,0,127>>, <<0,0,0,63>>, <<0,0,0,31>>,
  <<0,0,0,15>>, <<0,0,0,7>>, <<0,0,0,3>>, <<0,0,0,1>>
>>

\* C arrays are indexed from 0, TLA+ tuples from 1
netmask(i)  == uint32_netmask[i + 1]
hostmask(i) == uint32_hostmask[i + 1]

----------------------------------------------------------------------------
(* 32-bit unsigned arithmetic on four-byte tuples *)

RECURSIVE and8(_, _, _)
and8(x, y, n) ==
  IF n = 0 THEN 0
  ELSE (x % 2) * (y % 2) + 2 * and8(x \div 2, y \div 2, n - 1)

RECURSIVE xor8(_, _, _)
xor8(x, y, n) ==
  IF n = 0 THEN 0
  ELSE ((x + y) % 2) + 2 * xor8(x \div 2, y \div 2, n - 1)

u32_and(u, v) == [i \in 1..4 |-> and8(u[i], v[i], 8)]
u32_xor(u, v) == [i \in 1..4 |-> xor8(u[i], v[i], 8)]

u32_zero == <<0, 0, 0, 0>>

u32_lt(u, v) ==
  \E i \in 1..4 : u[i] < v[i] /\ \A j \in 1..(i - 1) : u[j] = v[j]

bswap32(u) == <<u[4], u[3], u[2], u[1]>>

\* the uint32_t a host reads from the four bytes of memory at word w (from 0)
load32(mem, w) ==
  IF littleEndian
  THEN <<mem[4*w + 4], mem[4*w + 3], mem[4*w + 2], mem[4*w + 1]>>
  ELSE <<mem[4*w + 1], mem[4*w + 2], mem[4*w + 3], mem[4*w + 4]>>

\* the four bytes of memory a host writes for a uint32_t
store32(u) == IF littleEndian THEN bswap32(u) ELSE u

htonl(u) == IF littleEndian THEN bswap32(u) ELSE u
ntohl(u) == IF littleEndian THEN bswap32(u) ELSE u

\* memcmp(s1, s2, n): only the sign of the result is fixed by the language;
\* the two conventions libraries use are the byte difference and -1/0/1
memcmp(s1, s2, n) ==
  IF \A i \in 1..n : s1[i] = s2[i] THEN 0
  ELSE LET i == CHOOSE k \in 1..n :
                  s1[k] # s2[k] /\ \A j \in 1..(k - 1) : s1[j] = s2[j]
       IN  IF libc = "diff" THEN s1[i] - s2[i]
           ELSE IF s1[i] < s2[i] THEN -1 ELSE 1

----------------------------------------------------------------------------
(* Comparators *)

\* ipv4_cmp on the addresses in host byte order, as ipv4_human_cmp does
ipv4_cmp_ntohl(a, b) ==
  LET as == ntohl(load32(a.addr, 0))
      bs == ntohl(load32(b.addr, 0))
  IN  IF u32_lt(as, bs) THEN -1
      ELSE IF u32_lt(bs, as) THEN 1
      ELSE 0

ipv4_cmp(a, b) ==
  LET as == load32(a.addr, 0)
      bs == load32(b.addr, 0)
  IN  IF u32_lt(as, bs) THEN -1
      ELSE IF u32_lt(bs, as) THEN 1
      ELSE 0

RECURSIVE ipv6_cmp_from(_, _, _)
ipv6_cmp_from(a, b, i) ==
  IF i >= 4 THEN 0
  ELSE IF u32_lt(load32(a.addr, i), load32(b.addr, i)) THEN -1
  ELSE IF u32_lt(load32(b.addr, i), load32(a.addr, i)) THEN 1
  ELSE ipv6_cmp_from(a, b, i + 1)

ipv6_cmp(a, b) == ipv6_cmp_from(a, b, 0)

ethernet_cmp(a, b) == memcmp(a.addr, b.addr, 6)

firewire_cmp(a, b) == memcmp(a.addr, b.addr, 8)

handlers_cmp(type, a, b) ==
  CASE type = SCAMPER_ADDR_TYPE_IPV4     -> ipv4_cmp(a, b)
    [] type = SCAMPER_ADDR_TYPE_IPV6     -> ipv6_cmp(a, b)
    [] type = SCAMPER_ADDR_TYPE_ETHERNET -> ethernet_cmp(a, b)
    [] type = SCAMPER_ADDR_TYPE_FIREWIRE -> firewire_cmp(a, b)

\* scamper_addr_cmp with the two results for different kinds exchanged
scamper_addr_cmp_swapped(a, b) ==
  IF a.id = b.id THEN 0
  ELSE IF a.type = b.type THEN handlers_cmp(a.type, a, b)
  ELSE IF a.type < b.type THEN 1
  ELSE -1

\* a and b are objects: a.id is the object's identity (its pointer)
scamper_addr_cmp(a, b) ==
  IF a.id = b.id THEN 0
  ELSE IF a.type = b.type THEN handlers_cmp(a.type, a, b)
  ELSE IF a.type < b.type THEN -1
  ELSE 1

scamper_addr_raw_cmp(a, raw) == memcmp(a.addr, raw, handlers_size(a.type))

----------------------------------------------------------------------------
(* Prefix arithmetic *)

\* ipv4_inprefix with the mask left in host byte order
ipv4_inprefix_nohtonl(a, p, l) ==
  IF l = 0 THEN 1
  ELSE IF l > 32 THEN -1
  ELSE IF u32_and(u32_xor(load32(a.addr, 0), load32(p, 0)),
                  netmask(l - 1)) = u32_zero
  THEN 1
  ELSE 0

ipv4_inprefix(a, p, l) ==
  IF l = 0 THEN 1
  ELSE IF l > 32 THEN -1
  ELSE IF u32_and(u32_xor(load32(a.addr, 0), load32(p, 0)),
                  htonl(netmask(l - 1))) = u32_zero
  THEN 1
  ELSE 0

\* the loop of ipv6_inprefix from word i on, with l bits left to compare
RECURSIVE ipv6_inprefix_from(_, _, _, _)
ipv6_inprefix_from(a, p, l, i) ==
  IF i >= 4 THEN -1
  ELSE LET mask == IF l > 32 THEN netmask(31) ELSE htonl(netmask(l - 1))
       IN  IF u32_and(u32_xor(load32(a.addr, i), load32(p, i)), mask) # u32_zero
           THEN 0
           ELSE IF l <= 32 THEN 1
           ELSE ipv6_inprefix_from(a, p, l - 32, i + 1)

ipv6_inprefix(a, p, l) ==
  IF l = 0 THEN 1
  ELSE IF l > 128 THEN -1
  ELSE ipv6_inprefix_from(a, p, l, 0)

\* the loop of ipv4_prefix and ipv4_prefixhosts, from length i down
RECURSIVE ipv4_prefix_from(_, _, _)
ipv4_prefix_from(a, b, i) ==
  IF i > 0 /\ u32_and(u32_xor(load32(a.addr, 0), load32(b.addr, 0)),
                      htonl(netmask(i - 1))) # u32_zero
  THEN ipv4_prefix_from(a, b, i - 1)
  ELSE i

\* ipv4_prefix with the loop started one length short
ipv4_prefix_31(a, b) == ipv4_prefix_from(a, b, 31)

ipv4_prefix(a, b) == ipv4_prefix_from(a, b, 32)

\* c.s_addr == 0 || c.s_addr == uint32_hostmask[i]
ipv4_hostpart_degenerate(a, i) ==
  LET c == u32_and(ntohl(load32(a.addr, 0)), hostmask(i))
  IN  c = u32_zero \/ c = hostmask(i)

\* the while loop of ipv4_prefixhosts
RECURSIVE ipv4_prefixhosts_shrink(_, _, _)
ipv4_prefixhosts_shrink(a, b, i) ==
  IF i > 0 /\ (ipv4_hostpart_degenerate(a, i) \/ ipv4_hostpart_degenerate(b, i))
  THEN ipv4_prefixhosts_shrink(a, b, i - 1)
  ELSE i

\* ipv4_prefixhosts that returns early for a length of 32 only
ipv4_prefixhosts_32(a, b) ==
  LET i == ipv4_prefix_from(a, b, 32)
  IN  IF i >= 32 THEN i ELSE ipv4_prefixhosts_shrink(a, b, i)

ipv4_prefixhosts(a, b) ==
  LET i == ipv4_prefix_from(a, b, 32)
  IN  IF i >= 31 THEN i ELSE ipv4_prefixhosts_shrink(a, b, i)

\* the inner loop of ipv6_prefix over the bits of two words that differ
RECURSIVE ipv6_prefix_word(_, _, _, _)
ipv6_prefix_word(ua, ub, j, x) ==
  IF j >= 32 THEN [returned |-> FALSE, x |-> x]
  ELSE IF u32_and(u32_xor(ua, ub), htonl(netmask(j))) # u32_zero
  THEN [returned |-> TRUE, x |-> x]
  ELSE ipv6_prefix_word(ua, ub, j + 1, x + 1)

\* the outer loop of ipv6_prefix from word i on
RECURSIVE ipv6_prefix_from(_, _, _, _)
ipv6_prefix_from(a, b, i, x) ==
  IF i >= 4 THEN x
  ELSE LET ua == load32(a.addr, i)
           ub == load32(b.addr, i)
       IN  IF ua = ub THEN ipv6_prefix_from(a, b, i + 1, x + 32)
           ELSE LET w == ipv6_prefix_word(ua, ub, 0, x)
                IN  IF w.returned THEN w.x
                    ELSE ipv6_prefix_from(a, b, i + 1, w.x)

ipv6_prefix(a, b) == ipv6_prefix_from(a, b, 0, 0)

\* ipv4_netaddr with the masked word left in host byte order
ipv4_netaddr_nohtonl(a, net, netlen) ==
  IF netlen <= 0 \/ netlen > 32 THEN [rc |-> -1, net |-> net]
  ELSE LET p == u32_and(ntohl(load32(a.addr, 0)), netmask(netlen - 1))
       IN  [rc |-> 0, net |-> store32(p)]

\* net is the caller's buffer: it is written only when 0 is returned
ipv4_netaddr(a, net, netlen) ==
  IF netlen <= 0 \/ netlen > 32 THEN [rc |-> -1, net |-> net]
  ELSE LET p == htonl(u32_and(ntohl(load32(a.addr, 0)), netmask(netlen - 1)))
       IN  [rc |-> 0, net |-> store32(p)]

\* the loop of ipv6_netaddr from word i on, with nl bits left to keep;
\* p is the four words of the local in6_addr
RECURSIVE ipv6_netaddr_from(_, _, _, _)
ipv6_netaddr_from(a, p, nl, i) ==
  IF i >= 4 THEN p
  ELSE LET w == IF nl >= 32 THEN load32(a.addr, i)
                ELSE htonl(u32_and(ntohl(load32(a.addr, i)), netmask(nl - 1)))
           q == [p EXCEPT ![i + 1] = w]
       IN  IF nl <= 32 THEN q
           ELSE ipv6_netaddr_from(a, q, nl - 32, i + 1)

ipv6_netaddr(a, net, nl) ==
  IF nl <= 0 \/ nl > 128 THEN [rc |-> -1, net |-> net]
  ELSE LET p == ipv6_netaddr_from(a, [i \in 1..4 |-> u32_zero], nl, 0)
       IN  [rc |-> 0,
            net |-> store32(p[1]) \o store32(p[2]) \o store32(p[3]) \o store32(p[4])]

\* the kinds whose handler has the function; the others have NULL
handlers_inprefix    == {SCAMPER_ADDR_TYPE_IPV4, SCAMPER_ADDR_TYPE_IPV6}
handlers_prefix      == {SCAMPER_ADDR_TYPE_IPV4, SCAMPER_ADDR_TYPE_IPV6}
handlers_prefixhosts == {SCAMPER_ADDR_TYPE_IPV4}
handlers_netaddr     == {SCAMPER_ADDR_TYPE_IPV4, SCAMPER_ADDR_TYPE_IPV6}

scamper_addr_inprefix(a, p, l) ==
  IF a.type \in handlers_inprefix
  THEN IF a.type = SCAMPER_ADDR_TYPE_IPV4
       THEN ipv4_inprefix(a, p, l)
       ELSE ipv6_inprefix(a, p, l)
  ELSE -1

scamper_addr_prefix(a, b) ==
  IF a.type # b.type \/ a.type \notin handlers_prefix THEN -1
  ELSE IF a.type = SCAMPER_ADDR_TYPE_IPV4 THEN ipv4_prefix(a, b)
  ELSE ipv6_prefix(a, b)

scamper_addr_prefixhosts(a, b) ==
  IF a.type # b.type \/ a.type \notin handlers_prefixhosts THEN -1
  ELSE ipv4_prefixhosts(a, b)

scamper_addr_netaddr(a, net, netlen) ==
  IF a.type \notin handlers_netaddr THEN [rc |-> -1, net |-> net]
  ELSE IF a.type = SCAMPER_ADDR_TYPE_IPV4 THEN ipv4_netaddr(a, net, netlen)
  ELSE ipv6_netaddr(a, net, netlen)

----------------------------------------------------------------------------
(* The heap: addresses and caches *)

AddrIds  == 1..MaxAddrs
CacheIds == 1..NumCaches

\* the (kind, bytes) values the callers of the cache ask for
CacheKeys == {
  [type |-> SCAMPER_ADDR_TYPE_IPV4, addr |-> <<192, 168, 1, 0>>],
  [type |-> SCAMPER_ADDR_TYPE_IPV4, addr |-> <<192, 168, 0, 1>>]
}

\* the (kind, bytes) values the callers of scamper_addr_alloc ask for
AllocKeys == {
  [type |-> SCAMPER_ADDR_TYPE_IPV4, addr |-> <<192, 168, 1, 0>>]
}

\* memory malloc has not handed out yet
NoAddr ==
  [st |-> "unalloc", type |-> 0, addr |-> <<>>, refcnt |-> 0,
   internal |-> NULL]

\* the cache scamper_addrcache_alloc returns: one empty tree per handler
NewCache == [st |-> "live", tree |-> [t \in Types |-> {}]]

\* malloc: the next object of the heap, NULL when the heap is exhausted
malloc_addr ==
  IF \E i \in AddrIds : slot[i].st = "unalloc"
  THEN CHOOSE i \in AddrIds :
         slot[i].st = "unalloc" /\ \A j \in 1..(i - 1) : slot[j].st # "unalloc"
  ELSE NULL

\* scamper_addrcache_get was the last call and returned r
Got(r) == [op |-> "get", ret |-> r]

\* the last call was another one
Other == [op |-> "other", ret |-> NULL]

----------------------------------------------------------------------------
(* The ordered container (mjl_splaytree), a set of the items it indexes *)

\* the items splaytree_find may return for the key: NULL when none compares 0
splaytree_find(tree, findme) ==
  LET hits == {i \in tree : handlers_cmp(findme.type, slot[i], findme) = 0}
  IN  IF hits = {} THEN {NULL} ELSE hits

splaytree_insert(tree, item) == tree \cup {item}

splaytree_remove_item(tree, item) == tree \ {item}

\* splaytree_free(tree, cb): cb is applied to every item, the tree is discarded
splaytree_free_items(tree) == tree

----------------------------------------------------------------------------
(* scamper_addr_alloc, scamper_addr_use, scamper_addr_free *)

\* an address that starts with two references
addr_alloc_obj_ref2(type, addr) ==
  [st |-> "live", type |-> type, addr |-> addr, refcnt |-> 2,
   internal |-> NULL]

\* the object scamper_addr_alloc builds
addr_alloc_obj(type, addr) ==
  [st |-> "live", type |-> type, addr |-> addr, refcnt |-> 1,
   internal |-> NULL]

scamper_addr_alloc(type, addr) ==
  /\ fault = "none"
  /\ \/ /\ malloc_addr # NULL
        /\ slot' = [slot EXCEPT ![malloc_addr] = addr_alloc_obj(type, addr)]
        /\ held' = [held EXCEPT ![malloc_addr] = 1]
        /\ last' = Other
        /\ UNCHANGED <<cache, fault>>
     \/ /\ last' = Other
        /\ UNCHANGED <<slot, cache, held, fault>>
  /\ UNCHANGED <<buildVars, pureVars>>

\* sa->refcnt++
addr_use_obj(obj) == [obj EXCEPT !.refcnt = @ + 1]

scamper_addr_use(id) ==
  /\ fault = "none"
  /\ \/ /\ id = NULL
        /\ UNCHANGED <<slot, cache, held, fault>>
     \/ /\ id # NULL
        /\ held[id] > 0
        /\ IF slot[id].st # "live"
           THEN \* the caller's reference is to an address that was deallocated
                /\ fault' = "use-after-free"
                /\ UNCHANGED <<slot, cache, held>>
           ELSE /\ slot[id].refcnt < MaxRef
                /\ slot' = [slot EXCEPT ![id] = addr_use_obj(@)]
                /\ held' = [held EXCEPT ![id] = @ + 1]
                /\ UNCHANGED <<cache, fault>>
  /\ last' = Other
  /\ UNCHANGED <<buildVars, pureVars>>

\* scamper_addr_free without the splaytree_remove_item
addr_free_remove_skip(c, obj, id) == c

\* the container of the cache after the address took itself out of it
addr_free_remove(c, obj, id) ==
  [c EXCEPT ![obj.internal].tree[obj.type] = splaytree_remove_item(@, id)]

\* scamper_addr_free applied to the heap s and the caches c: the heap, the
\* caches and the fault it leaves
addr_free_state(s, c, id) ==
  IF id = NULL
  THEN [slot |-> s, cache |-> c, fault |-> "none"]
  ELSE IF s[id].st # "live"
  THEN [slot |-> s, cache |-> c, fault |-> "use-after-free"]
  ELSE IF s[id].refcnt - 1 > 0
  THEN [slot |-> [s EXCEPT ![id].refcnt = @ - 1], cache |-> c, fault |-> "none"]
  ELSE LET ac    == s[id].internal
           freed == [s EXCEPT ![id].st = "freed", ![id].refcnt = 0]
       IN  IF ac = NULL
           THEN [slot |-> freed, cache |-> c, fault |-> "none"]
           ELSE IF c[ac].st # "live"
           THEN [slot |-> s, cache |-> c, fault |-> "use-after-free"]
           ELSE [slot |-> freed, cache |-> addr_free_remove(c, s[id], id),
                 fault |-> "none"]

\* the caller passes NULL or an address it holds a reference to
scamper_addr_free(id) ==
  /\ fault = "none"
  /\ id # NULL => held[id] > 0
  /\ LET n == addr_free_state(slot, cache, id)
     IN  /\ slot' = n.slot
         /\ cache' = n.cache
         /\ fault' = n.fault
         /\ held' = IF id # NULL /\ n.fault = "none"
                    THEN [held EXCEPT ![id] = @ - 1] ELSE held
  /\ last' = Other
  /\ UNCHANGED <<buildVars, pureVars>>

----------------------------------------------------------------------------
(* scamper_addrcache_get, scamper_addrcache_free *)

\* scamper_addrcache_get without the lookup: every request is a miss
cache_lookup_miss(ac, type, addr) == {NULL}

\* splaytree_find(ac->tree[type-1], &findme)
cache_lookup(ac, type, addr) ==
  splaytree_find(cache[ac].tree[type], [type |-> type, addr |-> addr])

\* the hit without the sa->refcnt++
cache_hit_obj_noinc(obj) == obj

\* the hit: sa->refcnt++
cache_hit_obj(obj) == [obj EXCEPT !.refcnt = @ + 1]

\* the miss without the sa->internal = ac
cache_miss_obj_unset(obj, ac) == obj

\* the miss, after the insert succeeded: sa->internal = ac
cache_miss_obj(obj, ac) == [obj EXCEPT !.internal = ac]

\* the caller passes a cache it has not destroyed
scamper_addrcache_get(ac, type, addr) ==
  /\ fault = "none"
  /\ cache[ac].st = "live"
  /\ IF \E i \in cache[ac].tree[type] : slot[i].st # "live"
     THEN \* the comparator reads an address that was deallocated
          /\ fault' = "use-after-free"
          /\ last' = Got(NULL)
          /\ UNCHANGED <<slot, cache, held>>
     ELSE \E r \in cache_lookup(ac, type, addr) :
          IF r # NULL
          THEN IF slot[r].internal # ac
               THEN /\ fault' = "assert"
                    /\ last' = Got(NULL)
                    /\ UNCHANGED <<slot, cache, held>>
               ELSE /\ slot[r].refcnt < MaxRef
                    /\ slot' = [slot EXCEPT ![r] = cache_hit_obj(@)]
                    /\ held' = [held EXCEPT ![r] = @ + 1]
                    /\ last' = Got(r)
                    /\ UNCHANGED <<cache, fault>>
          ELSE \/ \* scamper_addr_alloc fails
                  /\ last' = Got(NULL)
                  /\ UNCHANGED <<slot, cache, held, fault>>
               \/ \* splaytree_insert fails: goto err
                  /\ malloc_addr # NULL
                  /\ LET n == malloc_addr
                         s == [slot EXCEPT ![n] = addr_alloc_obj(type, addr)]
                         f == addr_free_state(s, cache, n)
                     IN  \* the memory of an address that was deallocated
                         \* is the allocator's again
                         /\ slot' = IF f.slot[n].st = "freed"
                                    THEN [f.slot EXCEPT ![n] = NoAddr]
                                    ELSE f.slot
                         /\ cache' = f.cache
                         /\ fault' = f.fault
                  /\ last' = Got(NULL)
                  /\ UNCHANGED held
               \/ \* the new address is inserted
                  /\ malloc_addr # NULL
                  /\ LET n == malloc_addr
                     IN  /\ slot' = [slot EXCEPT ![n] =
                               cache_miss_obj(addr_alloc_obj(type, addr), ac)]
                         /\ cache' = [cache EXCEPT ![ac].tree[type] =
                               splaytree_insert(@, n)]
                         /\ held' = [held EXCEPT ![n] = 1]
                         /\ last' = Got(n)
                  /\ UNCHANGED fault
  /\ UNCHANGED <<buildVars, pureVars>>

\* a callback that leaves the back-reference in place
free_cb_keep(node) == node

\* ((scamper_addr_t *)node)->internal = NULL
free_cb(node) == [node EXCEPT !.internal = NULL]

scamper_addrcache_free(ac) ==
  /\ fault = "none"
  /\ cache[ac].st = "live"
  /\ LET items == UNION {splaytree_free_items(cache[ac].tree[t]) : t \in Types}
     IN  IF \E i \in items : slot[i].st # "live"
         THEN \* free_cb writes to an address that was deallocated
              /\ fault' = "use-after-free"
              /\ UNCHANGED <<slot, cache>>
         ELSE /\ slot' = [i \in AddrIds |->
                           IF i \in items THEN free_cb(slot[i]) ELSE slot[i]]
              /\ cache' = [cache EXCEPT ![ac] =
                             [st |-> "freed", tree |-> [t \in Types |-> {}]]]
              /\ UNCHANGED fault
  /\ last' = Other
  /\ UNCHANGED <<held, buildVars, pureVars>>

----------------------------------------------------------------------------
(* The cache and its callers *)

NoObj == [id |-> 0, type |-> SCAMPER_ADDR_TYPE_IPV4, addr |-> <<0, 0, 0, 0>>]

PureIdle ==
  /\ pc = "idle"
  /\ sa = NoObj /\ sb = NoObj /\ sc = NoObj
  /\ len = 0
  /\ ret = 0

\* the caches are constructed and empty, no address is allocated; the keys
\* are IPv4 addresses, whose comparator does not call memcmp
Init ==
  /\ littleEndian \in BOOLEAN
  /\ libc = "diff"
  /\ slot = [i \in AddrIds |-> NoAddr]
  /\ cache = [c \in CacheIds |-> NewCache]
  /\ held = [i \in AddrIds |-> 0]
  /\ fault = "none"
  /\ last = Other
  /\ PureIdle

Next ==
  \/ \E ac \in CacheIds : \E k \in CacheKeys :
       scamper_addrcache_get(ac, k.type, k.addr)
  \/ \E ac \in CacheIds : scamper_addrcache_free(ac)
  \/ \E k \in AllocKeys : scamper_addr_alloc(k.type, k.addr)
  \/ \E id \in 0..MaxAddrs : scamper_addr_use(id)
  \/ \E id \in 0..MaxAddrs : scamper_addr_free(id)

Spec == Init /\ [][Next]_vars

----------------------------------------------------------------------------
(* The comparators applied to addresses of every kind *)

Obj(id, k) == [id |-> id, type |-> k.type, addr |-> k.addr]

\* the addresses the comparators are applied to
CmpKeys == {
  [type |-> SCAMPER_ADDR_TYPE_IPV4, addr |-> <<1, 0, 0, 2>>],
  [type |-> SCAMPER_ADDR_TYPE_IPV4, addr |-> <<2, 0, 0, 1>>],
  [type |-> SCAMPER_ADDR_TYPE_IPV4, addr |-> <<192, 168, 1, 0>>],
  [type |-> SCAMPER_ADDR_TYPE_IPV4, addr |-> <<192, 168, 0, 1>>],
  [type |-> SCAMPER_ADDR_TYPE_IPV6,
   addr |-> <<32, 1, 13, 184, 0, 0, 0, 0, 0, 0, 0, 0, 0, 0, 0, 1>>],
  [type |-> SCAMPER_ADDR_TYPE_IPV6,
   addr |-> <<32, 1, 13, 184, 0, 0, 0, 0, 0, 0, 0, 0, 0, 0, 1, 0>>],
  [type |-> SCAMPER_ADDR_TYPE_IPV6,
   addr |-> <<32, 1, 13, 184, 0, 0, 0, 1, 0, 0, 0, 0, 0, 0, 0, 0>>],
  [type |-> SCAMPER_ADDR_TYPE_IPV6,
   addr |-> <<254, 128, 0, 0, 0, 0, 0, 0, 0, 0, 0, 0, 0, 0, 0, 1>>],
  [type |-> SCAMPER_ADDR_TYPE_ETHERNET, addr |-> <<0, 17, 34, 51, 68, 85>>],
  [type |-> SCAMPER_ADDR_TYPE_ETHERNET, addr |-> <<0, 17, 34, 51, 68, 200>>],
  [type |-> SCAMPER_ADDR_TYPE_ETHERNET, addr |-> <<1, 0, 0, 0, 0, 0>>],
  [type |-> SCAMPER_ADDR_TYPE_FIREWIRE, addr |-> <<0, 17, 34, 51, 68, 85, 102, 119>>],
  [type |-> SCAMPER_ADDR_TYPE_FIREWIRE, addr |-> <<0, 17, 34, 51, 68, 85, 102, 7>>]
}

CacheIdle ==
  /\ slot = [i \in AddrIds |-> NoAddr]
  /\ cache = [c \in CacheIds |-> NewCache]
  /\ held = [i \in AddrIds |-> 0]
  /\ fault = "none"
  /\ last = Other

NoResult == [ab |-> 0, ba |-> 0, aa |-> 0, bc |-> 0, ac |-> 0, raw |-> 0]

\* sa, sb and sc are three objects, or sb is the object sa is
InitCmp ==
  /\ littleEndian \in BOOLEAN
  /\ libc \in {"diff", "sign"}
  /\ CacheIdle
  /\ pc = "start"
  /\ sa \in {Obj(1, k) : k \in CmpKeys}
  /\ sb \in {Obj(2, k) : k \in CmpKeys} \cup {sa}
  /\ sc \in {Obj(3, k) : k \in CmpKeys}
  /\ len = 0
  /\ ret = NoResult

\* scamper_addr_cmp on the pairs of the three objects
call_scamper_addr_cmp ==
  /\ pc = "start"
  /\ pc' = "cmp"
  /\ ret' = [ret EXCEPT !.ab = scamper_addr_cmp(sa, sb),
                        !.ba = scamper_addr_cmp(sb, sa),
                        !.aa = scamper_addr_cmp(sa, sa),
                        !.bc = scamper_addr_cmp(sb, sc),
                        !.ac = scamper_addr_cmp(sa, sc)]
  /\ UNCHANGED <<sa, sb, sc, len, buildVars, cacheVars>>

\* scamper_addr_raw_cmp of sa against the bytes of sb, a buffer of sa's width
call_scamper_addr_raw_cmp ==
  /\ pc = "cmp"
  /\ sa.type = sb.type
  /\ pc' = "raw_cmp"
  /\ ret' = [ret EXCEPT !.raw = scamper_addr_raw_cmp(sa, sb.addr)]
  /\ UNCHANGED <<sa, sb, sc, len, buildVars, cacheVars>>

NextCmp == call_scamper_addr_cmp \/ call_scamper_addr_raw_cmp

SpecCmp == InitCmp /\ [][NextCmp]_vars

----------------------------------------------------------------------------
(* The prefix functions applied to pairs of addresses *)

Pow2(n) == IF n = 0 THEN 1 ELSE 2 ^ n

\* the bits of a byte string, the first byte's most significant bit first
BitsOf(bytes) ==
  [i \in 1..(8 * Len(bytes)) |->
     (bytes[((i - 1) \div 8) + 1] \div Pow2(7 - ((i - 1) % 8))) % 2]

BytesOf(bits) ==
  [j \in 1..(Len(bits) \div 8) |->
     128 * bits[8*j - 7] + 64 * bits[8*j - 6] + 32 * bits[8*j - 5]
     + 16 * bits[8*j - 4] + 8 * bits[8*j - 3] + 4 * bits[8*j - 2]
     + 2 * bits[8*j - 1] + bits[8*j]]

\* the address that has the first k bits of x, not its next bit, and then
\* the bits of x, zeros or ones
Variant(x, k, tail) ==
  LET b == BitsOf(x)
  IN  BytesOf([i \in 1..Len(b) |->
        IF i <= k THEN b[i]
        ELSE IF i = k + 1 THEN 1 - b[i]
        ELSE IF tail = "same" THEN b[i]
        ELSE IF tail = "zeros" THEN 0
        ELSE 1])

PrefixBases4 == {<<192, 168, 1, 0>>, <<10, 20, 30, 40>>,
                 <<0, 0, 0, 0>>, <<255, 255, 255, 255>>}

PrefixBases6 == {<<32, 1, 13, 184, 0, 0, 0, 0, 0, 0, 0, 0, 0, 0, 0, 1>>}

Tails4 == {"same", "zeros", "ones"}
Tails6 == {"same", "ones"}

Key(type, addr) == [type |-> type, addr |-> addr]

\* the pairs of addresses the prefix functions are applied to
PrefixPairs ==
  {<<Key(SCAMPER_ADDR_TYPE_IPV4, x), Key(SCAMPER_ADDR_TYPE_IPV4, x)>> :
     x \in PrefixBases4}
  \cup
  {<<Key(SCAMPER_ADDR_TYPE_IPV4, p[1]),
     Key(SCAMPER_ADDR_TYPE_IPV4, Variant(p[1], p[2], p[3]))>> :
     p \in PrefixBases4 \X (0..31) \X Tails4}
  \cup
  {<<Key(SCAMPER_ADDR_TYPE_IPV4, p[1]),
     Key(SCAMPER_ADDR_TYPE_IPV4, Variant(<<10, 20, 30, 40>>, p[2], "same"))>> :
     p \in {<<0, 0, 0, 0>>, <<255, 255, 255, 255>>} \X (0..31)}
  \cup
  {<<Key(SCAMPER_ADDR_TYPE_IPV6, x), Key(SCAMPER_ADDR_TYPE_IPV6, x)>> :
     x \in PrefixBases6}
  \cup
  {<<Key(SCAMPER_ADDR_TYPE_IPV6, p[1]),
     Key(SCAMPER_ADDR_TYPE_IPV6, Variant(p[1], p[2], p[3]))>> :
     p \in PrefixBases6 \X (0..127) \X Tails6}
  \cup
  {<<Key(SCAMPER_ADDR_TYPE_ETHERNET, <<0, 17, 34, 51, 68, 85>>),
     Key(SCAMPER_ADDR_TYPE_ETHERNET, <<0, 17, 34, 51, 68, 85>>)>>,
   <<Key(SCAMPER_ADDR_TYPE_FIREWIRE, <<0, 17, 34, 51, 68, 85, 102, 119>>),
     Key(SCAMPER_ADDR_TYPE_FIREWIRE, <<0, 17, 34, 51, 68, 85, 102, 7>>)>>,
   <<Key(SCAMPER_ADDR_TYPE_IPV4, <<192, 168, 1, 0>>),
     Key(SCAMPER_ADDR_TYPE_IPV6,
         <<192, 168, 1, 0, 0, 0, 0, 0, 0, 0, 0, 0, 0, 0, 0, 0>>)>>,
   <<Key(SCAMPER_ADDR_TYPE_IPV6,
         <<192, 168, 1, 0, 0, 0, 0, 0, 0, 0, 0, 0, 0, 0, 0, 0>>),
     Key(SCAMPER_ADDR_TYPE_IPV4, <<192, 168, 1, 0>>)>>}

\* the prefix lengths tried on an address: 0 to one more than its bits
PrefixLens(type) == 0..(8 * handlers_size(type) + 1)

InitPrefix ==
  /\ littleEndian \in BOOLEAN
  /\ libc = "diff"
  /\ CacheIdle
  /\ pc = "start"
  /\ \E p \in PrefixPairs : sa = Obj(1, p[1]) /\ sb = Obj(2, p[2])
  /\ sc = NoObj
  /\ len = 0
  /\ ret = NoResult

\* scamper_addr_inprefix of sa in the prefix made of the bytes of sb
call_scamper_addr_inprefix(l) ==
  /\ pc = "start"
  /\ sa.type = sb.type
  /\ pc' = "inprefix"
  /\ len' = l
  /\ ret' = [ret EXCEPT !.ab = scamper_addr_inprefix(sa, sb.addr, l)]
  /\ UNCHANGED <<sa, sb, sc, buildVars, cacheVars>>

call_scamper_addr_prefix ==
  /\ pc = "start"
  /\ pc' = "prefix"
  /\ ret' = [ret EXCEPT !.ab = scamper_addr_prefix(sa, sb),
                        !.ba = scamper_addr_prefix(sb, sa)]
  /\ UNCHANGED <<sa, sb, sc, len, buildVars, cacheVars>>

call_scamper_addr_prefixhosts ==
  /\ pc = "start"
  /\ pc' = "prefixhosts"
  /\ ret' = [ret EXCEPT !.ab = scamper_addr_prefixhosts(sa, sb),
                        !.ba = scamper_addr_prefixhosts(sb, sa)]
  /\ UNCHANGED <<sa, sb, sc, len, buildVars, cacheVars>>

\* the lengths tried for a network address: -1 to one more than the bits
NetLens(type) == (-1)..(8 * handlers_size(type) + 1)

\* the buffer a caller passes for the network address, before the call
NetBuffer(type) == [i \in 1..handlers_size(type) |-> 170]

\* scamper_addr_netaddr of sb into a buffer, with the bytes sb had before
\* the call kept in ret.addr; when it succeeds, the address is tested against
\* the network written, and the network address of the network written is
\* taken in turn
call_scamper_addr_netaddr(l) ==
  /\ pc = "start"
  /\ pc' = "netaddr"
  /\ len' = l
  /\ LET r == scamper_addr_netaddr(sb, NetBuffer(sb.type), l)
         n == Obj(3, Key(sb.type, r.net))
         again == IF r.rc = 0
                  THEN scamper_addr_netaddr(n, NetBuffer(sb.type), l)
                  ELSE r
     IN  ret' = [rc |-> r.rc, net |-> r.net, addr |-> sb.addr,
                 inprefix |-> IF r.rc = 0
                              THEN scamper_addr_inprefix(sb, r.net, l)
                              ELSE -1,
                 again |-> again]
  /\ UNCHANGED <<sa, sb, sc, buildVars, cacheVars>>

NextPrefix ==
  \/ \E l \in PrefixLens(sa.type) : call_scamper_addr_inprefix(l)
  \/ call_scamper_addr_prefix
  \/ call_scamper_addr_prefixhosts
  \/ \E l \in NetLens(sb.type) : call_scamper_addr_netaddr(l)

SpecPrefix == InitPrefix /\ [][NextPrefix]_vars

----------------------------------------------------------------------------
(* Properties of the cache *)

Live(i) == slot[i].st = "live"

\* the addresses a cache indexes, over the containers of all kinds
Residents(c) == UNION {cache[c].tree[t] : t \in Types}

SameValue(x, y) == x.type = y.type /\ x.addr = y.addr

\* C1: a live cache never holds two distinct live addresses of the same kind
\* with the same bytes
C1_Interning ==
  \A c \in CacheIds : cache[c].st = "live" =>
    \A i \in Residents(c) : \A j \in Residents(c) :
      (Live(i) /\ Live(j) /\ SameValue(slot[i], slot[j])) => i = j

\* a cache that indexes two addresses, one of them requested twice
C1_Witness ==
  \E c \in CacheIds :
    /\ cache[c].st = "live"
    /\ Cardinality(cache[c].tree[SCAMPER_ADDR_TYPE_IPV4]) = 2
    /\ \E i \in Residents(c) : slot[i].refcnt = 2 /\ last = Got(i)

C2_RefInv ==
  \A i \in AddrIds :
    /\ Live(i) => slot[i].refcnt = held[i] /\ slot[i].refcnt >= 1
    /\ held[i] > 0 => Live(i)

\* a request for a value a live address of the cache has is answered with
\* that address, and one more reference to it
C2_Step ==
  (last'.op = "get" /\ last'.ret # NULL) =>
    LET r == last'.ret
    IN  \A i \in AddrIds :
          ( /\ Live(i)
            /\ slot'[r].internal # NULL
            /\ slot[i].internal = slot'[r].internal
            /\ i \in Residents(slot[i].internal)
            /\ SameValue(slot[i], slot'[r]) )
          => /\ r = i
             /\ slot'[i].refcnt = slot[i].refcnt + 1
             /\ held'[i] = held[i] + 1

\* every call moves a reference count by as much as the references handed out
C2_Count ==
  \A i \in AddrIds :
    /\ held'[i] - held[i] \in {-1, 0, 1}
    /\ (Live(i) /\ slot'[i].st = "live") =>
         slot'[i].refcnt - slot[i].refcnt = held'[i] - held[i]

\* C2: requests for the same (kind, bytes) on one cache return the same
\* instance while it is live; a hit and an acquire add one to its reference
\* count and a release takes one off, so that the count of a live address is
\* the number of references handed out for it, and at least 1
C2_RefCount == []C2_RefInv /\ [][C2_Step /\ C2_Count]_vars

\* the same address returned for the second time by the cache
C2_Witness ==
  \E i \in AddrIds :
    /\ last = Got(i)
    /\ Live(i)
    /\ slot[i].internal # NULL
    /\ slot[i].refcnt = 2
    /\ held[i] = 2

C3_NoDestroyedResident ==
  \A c \in CacheIds : \A i \in Residents(c) : Live(i)

C3_Step ==
  /\ \A i \in AddrIds :
       \* a destroyed address stays destroyed
       /\ slot[i].st = "freed" => slot'[i] = slot[i]
       \* the release that destroys an address is of its last reference, and
       \* no container has the address afterwards
       /\ (Live(i) /\ slot'[i].st = "freed") =>
            /\ slot[i].refcnt = 1
            /\ \A c \in CacheIds : i \notin Residents(c)'
  /\ (last'.op = "get" /\ last'.ret # NULL) =>
       LET r == last'.ret
       IN  (~ \E i \in AddrIds :
                /\ Live(i)
                /\ slot[i].internal = slot'[r].internal
                /\ SameValue(slot[i], slot'[r]))
           => /\ slot[r].st = "unalloc"
              /\ slot'[r].st = "live"
              /\ slot'[r].refcnt = 1

\* C3: the release of the last reference takes a cached address out of its
\* container, so that no container holds a destroyed address; a destroyed
\* address stays destroyed; and the cache answers a later request for the
\* same (kind, bytes) with a new address whose reference count is 1
C3_ReleaseToZero == []C3_NoDestroyedResident /\ [][C3_Step]_vars

\* an address destroyed while cached, and the new address the same cache
\* returned for the same value
C3_Witness ==
  \E i \in AddrIds : \E j \in AddrIds :
    /\ slot[i].st = "freed"
    /\ slot[i].internal # NULL
    /\ cache[slot[i].internal].st = "live"
    /\ last = Got(j)
    /\ j # i
    /\ Live(j)
    /\ SameValue(slot[i], slot[j])
    /\ slot[j].internal = slot[i].internal
    /\ slot[j].refcnt = 1

C4_Step ==
  /\ \A c \in CacheIds :
       (cache[c].st = "live" /\ cache'[c].st = "freed") =>
         /\ \A i \in AddrIds :
              slot'[i] = IF i \in Residents(c)
                         THEN [slot[i] EXCEPT !.internal = NULL]
                         ELSE slot[i]
         /\ \A i \in Residents(c) : Live(i) /\ slot[i].internal = c
         /\ held' = held
  /\ \A i \in AddrIds :
       \* a release of a detached address leaves every cache alone
       (Live(i) /\ slot[i].internal = NULL /\ held'[i] < held[i]) =>
         /\ cache' = cache
         /\ slot'[i].st = "freed" <=> slot[i].refcnt = 1

\* C4: the destruction of a cache clears the back-reference of every address
\* it indexes and changes nothing else of them; the later releases of such an
\* address, the last one included, change no cache and reach no undefined
\* behaviour
C4_Teardown == [](fault = "none") /\ [][C4_Step]_vars

\* an address only the cache hands out, destroyed after its cache was
C4_Witness ==
  \E i \in AddrIds :
    /\ slot[i].st = "freed"
    /\ slot[i].internal = NULL
    /\ [type |-> slot[i].type, addr |-> slot[i].addr] \in CacheKeys \ AllocKeys
    /\ \E c \in CacheIds : cache[c].st = "freed"

C5_BackRef ==
  /\ \A i \in AddrIds : Live(i) =>
       \A c \in CacheIds :
         slot[i].internal = c <=>
           (cache[c].st = "live" /\ i \in cache[c].tree[slot[i].type])
  /\ \A i \in AddrIds : Live(i) => slot[i].internal \in {NULL} \cup CacheIds
  /\ \A c \in CacheIds : \A t \in Types : \A i \in cache[c].tree[t] :
       slot[i].type = t
  /\ \A c \in CacheIds : \A d \in CacheIds :
       c # d => Residents(c) \cap Residents(d) = {}

\* an address scamper_addr_alloc returns refers to no cache
C5_Step ==
  \A i \in AddrIds :
    (slot[i].st = "unalloc" /\ slot'[i].st = "live" /\ last'.op # "get") =>
      /\ slot'[i].internal = NULL
      /\ \A c \in CacheIds : i \notin Residents(c)'

\* C5: a live address refers to a cache exactly when that cache is live and
\* holds the address in the container of its kind; an address from
\* scamper_addr_alloc refers to no cache and is in no container; no address
\* is in the containers of two caches
C5_NoDangling == []C5_BackRef /\ [][C5_Step]_vars

\* the same value cached in both caches, each with its own address
C5_Witness ==
  \E i \in AddrIds : \E j \in AddrIds :
    /\ Live(i) /\ Live(j)
    /\ SameValue(slot[i], slot[j])
    /\ slot[i].internal = 1
    /\ slot[j].internal = 2

\* an address from scamper_addr_alloc next to a cached one of the same value
C5_WitnessStandalone ==
  /\ \A c \in CacheIds : cache[c].st = "live"
  /\ \E i \in AddrIds : \E j \in AddrIds :
       /\ Live(i) /\ Live(j)
       /\ SameValue(slot[i], slot[j])
       /\ slot[i].internal # NULL
       /\ slot[j].internal = NULL

\* C12: a scamper_addrcache_get that returns NULL, because the allocation of
\* the new address or its insertion into the tree failed, leaves every
\* address, every tree and every reference held as they were and faults
\* nothing; the address a miss builds carries one reference and no
\* back-reference, so deallocating it attempts no removal from a tree
C12_Step ==
  (last'.op = "get" /\ last'.ret = NULL) =>
    /\ slot' = slot
    /\ cache' = cache
    /\ held' = held
    /\ fault' = "none"
    /\ malloc_addr # NULL =>
         \A k \in CacheKeys :
           LET n == malloc_addr
               new == addr_alloc_obj(k.type, k.addr)
               f == addr_free_state([slot EXCEPT ![n] = new], cache, n)
           IN  /\ new.refcnt = 1 /\ new.internal = NULL
               /\ f.slot[n].st = "freed"
               /\ f.cache = cache
               /\ f.fault = "none"

C12_FailedMiss == [][C12_Step]_vars

\* a get has just returned NULL while an address is resident and referenced
\* and memory for another address is left, so that either failure can be the
\* one that happened
C12_Witness ==
  /\ last = Got(NULL)
  /\ fault = "none"
  /\ malloc_addr # NULL
  /\ \E c \in CacheIds : \E i \in Residents(c) :
       Live(i) /\ slot[i].internal = c /\ slot[i].refcnt >= 1 /\ held[i] >= 1

----------------------------------------------------------------------------
(* Properties of the comparators *)

Sign(x) == IF x < 0 THEN -1 ELSE IF x > 0 THEN 1 ELSE 0

\* the order of two byte strings of one length, first byte most significant
LexSign(x, y) ==
  IF x = y THEN 0
  ELSE LET i == CHOOSE k \in 1..Len(x) :
                  x[k] # y[k] /\ \A j \in 1..(k - 1) : x[j] = y[j]
       IN  IF x[i] < y[i] THEN -1 ELSE 1

\* the bytes of an address in the order their 32-bit words weigh them on the
\* host: as they are on a big-endian host, each word reversed on a little-endian
HostWordBytes(x) ==
  [i \in 1..Len(x) |->
     IF littleEndian THEN x[4 * ((i - 1) \div 4) + 4 - ((i - 1) % 4)] ELSE x[i]]

\* C6: scamper_addr_cmp is a total order on the addresses of the four kinds:
\* cmp(a,b) = -cmp(b,a), cmp(a,a) = 0, it is transitive, it is 0 exactly for
\* the same kind and bytes, and across kinds it is -1 or 1 by the kinds alone
C6_TotalOrder ==
  pc = "cmp" =>
    /\ ret.ab = - ret.ba
    /\ ret.aa = 0
    /\ (ret.ab <= 0 /\ ret.bc <= 0) => ret.ac <= 0
    /\ (ret.ab < 0 /\ ret.bc <= 0) => ret.ac < 0
    /\ (ret.ab <= 0 /\ ret.bc < 0) => ret.ac < 0
    /\ ret.ab = 0 <=> (sa.type = sb.type /\ sa.addr = sb.addr)
    /\ sa.type # sb.type => ret.ab = (IF sa.type < sb.type THEN -1 ELSE 1)

\* three addresses of one kind in strictly ascending order
C6_Witness ==
  /\ pc = "cmp"
  /\ sa.type = sb.type /\ sb.type = sc.type
  /\ ret.ab < 0 /\ ret.bc < 0 /\ ret.ac < 0 /\ ret.ba > 0

\* two addresses of different kinds
C6_WitnessKinds ==
  /\ pc = "cmp"
  /\ sa.type > sb.type
  /\ ret.ab = 1 /\ ret.ba = -1

ByteKinds == {SCAMPER_ADDR_TYPE_ETHERNET, SCAMPER_ADDR_TYPE_FIREWIRE}
WordKinds == {SCAMPER_ADDR_TYPE_IPV4, SCAMPER_ADDR_TYPE_IPV6}

----------------------------------------------------------------------------
(* Properties of the prefix functions *)

BitWidth(type) == 8 * handlers_size(type)

\* the number of leading bits two byte strings of one length have in common
CommonBits(x, y) ==
  LET bx == BitsOf(x)
      by == BitsOf(y)
  IN  IF x = y THEN Len(bx)
      ELSE (CHOOSE k \in 1..Len(bx) :
              bx[k] # by[k] /\ \A j \in 1..(k - 1) : bx[j] = by[j]) - 1

\* C8: scamper_addr_inprefix on an IPv4 or IPv6 address is 1 for length 0,
\* -1 for a length above the kind's bit width, and for the lengths between
\* 1 exactly when the address and the prefix have that many leading bits in
\* common, else 0; on an Ethernet or FireWire address it is -1
C8_InPrefix ==
  pc = "inprefix" =>
    IF sa.type \in ByteKinds THEN ret.ab = -1
    ELSE IF len = 0 THEN ret.ab = 1
    ELSE IF len > BitWidth(sa.type) THEN ret.ab = -1
    ELSE ret.ab = (IF CommonBits(sa.addr, sb.addr) >= len THEN 1 ELSE 0)

\* an IPv6 prefix that ends inside the third word, one bit before the
\* address leaves it
C8_Witness ==
  /\ pc = "inprefix"
  /\ sa.type = SCAMPER_ADDR_TYPE_IPV6
  /\ len = 70
  /\ CommonBits(sa.addr, sb.addr) = 70
  /\ ret.ab = 1

\* an IPv4 address outside a prefix that ends on no byte boundary
C8_WitnessOutside ==
  /\ pc = "inprefix"
  /\ sa.type = SCAMPER_ADDR_TYPE_IPV4
  /\ len = 13
  /\ CommonBits(sa.addr, sb.addr) = 12
  /\ ret.ab = 0

\* C9: scamper_addr_prefix of two IPv4 or two IPv6 addresses is the number of
\* leading bits they have in common, the same in both directions; it is -1
\* when the kinds differ or the kind is Ethernet or FireWire
C9_CommonPrefix ==
  pc = "prefix" =>
    IF sa.type # sb.type \/ sa.type \in ByteKinds
    THEN ret.ab = -1 /\ ret.ba = -1
    ELSE /\ ret.ab = CommonBits(sa.addr, sb.addr)
         /\ ret.ba = ret.ab
         /\ ret.ab \in 0..BitWidth(sa.type)
         /\ sa.addr = sb.addr => ret.ab = BitWidth(sa.type)

\* two IPv6 addresses that differ in the last bit only
C9_Witness ==
  /\ pc = "prefix"
  /\ sa.type = SCAMPER_ADDR_TYPE_IPV6
  /\ sb.addr = [sa.addr EXCEPT ![16] = 0]
  /\ sa.addr[16] = 1
  /\ ret.ab = 127

\* two equal IPv4 addresses
C9_WitnessEqual ==
  /\ pc = "prefix"
  /\ sa.type = SCAMPER_ADDR_TYPE_IPV4
  /\ sa.addr = sb.addr
  /\ ret.ab = 32

\* the low 32 - l bits of an IPv4 address are all 0 or all 1
HostPartDegenerate(x, l) ==
  LET b == BitsOf(x)
  IN  \/ \A i \in (l + 1)..32 : b[i] = 0
      \/ \A i \in (l + 1)..32 : b[i] = 1

\* the largest length up to n at which neither host part is degenerate, or 0
HostsLength(x, y, n) ==
  LET good == {l \in 1..n : ~ HostPartDegenerate(x, l) /\ ~ HostPartDegenerate(y, l)}
  IN  IF good = {} THEN 0
      ELSE CHOOSE l \in good : \A m \in good : m <= l

AllZeroOrOne(x) == x = <<0, 0, 0, 0>> \/ x = <<255, 255, 255, 255>>

\* C10: scamper_addr_prefixhosts of two IPv4 addresses is their common prefix
\* length when that is 31 or 32, and else the largest length up to it at
\* which the host part of neither address is all 0 or all 1, or 0 when there
\* is none; so it is 0 when the common length is below 31 and one address is
\* the all-zero or the all-one address
C10_PrefixHosts ==
  (pc = "prefixhosts" /\ sa.type = SCAMPER_ADDR_TYPE_IPV4
                      /\ sb.type = SCAMPER_ADDR_TYPE_IPV4) =>
    LET n == CommonBits(sa.addr, sb.addr)
    IN  /\ n >= 31 => ret.ab = n
        /\ n < 31 => ret.ab = HostsLength(sa.addr, sb.addr, n)
        /\ (n < 31 /\ (AllZeroOrOne(sa.addr) \/ AllZeroOrOne(sb.addr))) =>
             ret.ab = 0

\* 192.168.1.0 and 192.168.1.1: the common length of 31 is returned
C10_Witness ==
  /\ pc = "prefixhosts"
  /\ sa = Obj(1, Key(SCAMPER_ADDR_TYPE_IPV4, <<192, 168, 1, 0>>))
  /\ sb = Obj(2, Key(SCAMPER_ADDR_TYPE_IPV4, <<192, 168, 1, 1>>))
  /\ ret.ab = 31

\* a common length the heuristic shortens to a length above 0
C10_WitnessShrunk ==
  /\ pc = "prefixhosts"
  /\ sa.type = SCAMPER_ADDR_TYPE_IPV4 /\ sb.type = SCAMPER_ADDR_TYPE_IPV4
  /\ CommonBits(sa.addr, sb.addr) < 31
  /\ ret.ab > 0
  /\ ret.ab < CommonBits(sa.addr, sb.addr)

\* the all-zero address against an address that shares 4 bits with it
C10_WitnessZero ==
  /\ pc = "prefixhosts"
  /\ sa = Obj(1, Key(SCAMPER_ADDR_TYPE_IPV4, <<0, 0, 0, 0>>))
  /\ CommonBits(sa.addr, sb.addr) = 4
  /\ ~ AllZeroOrOne(sb.addr)
  /\ ret.ab = 0

\* the byte string with the first l bits of x and zeros after them
Masked(x, l) ==
  LET b == BitsOf(x)
  IN  BytesOf([i \in 1..Len(b) |-> IF i <= l THEN b[i] ELSE 0])

\* C11: scamper_addr_netaddr returns -1 for a length of 0 or less, for a
\* length above the kind's bit width, and for an Ethernet or FireWire
\* address; for an IPv4 or IPv6 address and a length from 1 to the bit width
\* it returns 0 and writes the address's leading bits of that length followed
\* by zero bits, so the address is in the prefix written and the network
\* address of the network written is the same; the address is left as it was
C11_NetAddr ==
  pc = "netaddr" =>
    IF sb.type \in ByteKinds \/ len <= 0 \/ len > BitWidth(sb.type)
    THEN ret.rc = -1
    ELSE /\ ret.rc = 0
         /\ ret.net = Masked(sb.addr, len)
         /\ ret.inprefix = 1
         /\ ret.again = [rc |-> 0, net |-> ret.net]
         /\ ret.addr = sb.addr

\* an IPv6 network that ends inside the third word, where the address has
\* one bits after it
C11_Witness ==
  /\ pc = "netaddr"
  /\ sb.type = SCAMPER_ADDR_TYPE_IPV6
  /\ len = 70
  /\ ret.rc = 0
  /\ ret.net # sb.addr
  /\ ret.net[9] # 0
  /\ ret.net = Masked(sb.addr, 70)

\* an IPv4 network that ends on no byte boundary
C11_WitnessIPv4 ==
  /\ pc = "netaddr"
  /\ sb.type = SCAMPER_ADDR_TYPE_IPV4
  /\ len = 13
  /\ ret.rc = 0
  /\ ret.net # sb.addr
  /\ ret.net[2] # 0

\* the three ways to get -1: a length below 1, a length above the bit
\* width, an address of a kind without the function
C11_WitnessError ==
  /\ pc = "netaddr"
  /\ ret.rc = -1
  /\ \/ sb.type = SCAMPER_ADDR_TYPE_IPV4 /\ len = 33
     \/ sb.type = SCAMPER_ADDR_TYPE_IPV6 /\ len = 0
     \/ sb.type = SCAMPER_ADDR_TYPE_ETHERNET /\ len = 8

====
